---- MODULE Spec2Model ----
(***************************************************************************)
(* State-machine model of app.py, a Streamlit four-choice quiz.            *)
(*                                                                         *)
(* The questions file is a sequence of CSV lines, each line a sequence of  *)
(* field strings; line 1 is the header.  Every user interaction is one     *)
(* complete run of the script (main), st.rerun() included.                 *)
(*                                                                         *)
(* The source's Japanese literals are written in ASCII:                    *)
(*   MondaiNo = the question-number column, Nanido = difficulty,           *)
(*   Mondai = question text, Sentakushi1..4 = the four choices,            *)
(*   Seikai = the 1-based correct choice, Comment, Status;                 *)
(*   "yuukou" = the status value active, "mukou" = the value disabled.     *)
(***************************************************************************)
EXTENDS Integers, Sequences, FiniteSets, TLC

VARIABLES
    file_exists,             \* os.path.exists(QUESTIONS_FILE)
    file_lines,              \* the CSV lines of QUESTIONS_FILE (header first)
    cache,                   \* st.cache_data entry of load_questions_from_csv
    quiz_started,            \* st.session_state.quiz_started
    questions,               \* st.session_state.questions
    current_question_index,  \* st.session_state.current_question_index
    score,                   \* st.session_state.score
    answered_details,        \* st.session_state.answered_details
    last_answer_correct,     \* st.session_state.last_answer_correct
    last_answer_comment,     \* st.session_state.last_answer_comment
    show_feedback,           \* st.session_state.show_feedback
    page                     \* what the last script run rendered

vars == <<file_exists, file_lines, cache, quiz_started, questions,
          current_question_index, score, answered_details,
          last_answer_correct, last_answer_comment, show_feedback,
          page>>

-----------------------------------------------------------------------------
(* Bounds of the model *)

\* the most data lines the questions file holds: a file starts with at most
\* MaxRows of them, and the add form appends while there are fewer
MaxRows == 2

-----------------------------------------------------------------------------
(* Python values and helpers *)

\* Python's None (no file field and no form field has this value)
None == "<None>"

\* truthiness of a str-or-None value
Truthy(v) == v # None /\ v # ""

Range(s) == {s[i] : i \in DOMAIN s}

\* list.index(x): the zero-based position of the FIRST element equal to x
index(seq, x) ==
    (CHOOSE i \in DOMAIN seq : seq[i] = x /\ \A j \in 1..(i - 1) : seq[j] # x) - 1

\* str.strip() on the strings of the model
strip(s) ==
    CASE s = " mukou " -> "mukou"
      [] s = " 3 "     -> "3"
      [] s = " "       -> ""
      [] OTHER         -> s

\* int(s): <<n>> when s is an integer literal (surrounding blanks allowed),
\* <<>> when int() raises ValueError
int(s) ==
    LET t == strip(s)
    IN  CASE t = "0" -> <<0>>
          [] t = "1" -> <<1>>
          [] t = "2" -> <<2>>
          [] t = "3" -> <<3>>
          [] t = "4" -> <<4>>
          [] t = "5" -> <<5>>
          [] OTHER   -> <<>>

-----------------------------------------------------------------------------
(* The CSV file *)

CSV_HEADERS ==
    <<"MondaiNo", "Nanido", "Mondai", "Sentakushi1", "Sentakushi2",
      "Sentakushi3", "Sentakushi4", "Seikai", "Comment", "Status">>

STATUS_ACTIVE == "yuukou"
STATUS_DISABLED == "mukou"

choice_columns == <<"Sentakushi1", "Sentakushi2", "Sentakushi3", "Sentakushi4">>

required_headers == SelectSeq(CSV_HEADERS, LAMBDA h : h # "Status")

\* csv.DictReader: the dict of one row.  A key of the header beyond the
\* row's last field maps to None (restval); row_get is dict.get(key, default)
row_get(header, row, key, default) ==
    IF key \notin Range(header) THEN default
    ELSE LET i == CHOOSE k \in DOMAIN header :
                    header[k] = key /\ \A j \in DOMAIN header : header[j] = key => j <= k
         IN  IF i <= Len(row) THEN row[i] ELSE None

\* any(row.values()): fields beyond the header are kept as a non-empty list
\* under the key None, which is truthy
any_values(header, row) ==
    \/ Len(row) > Len(header)
    \/ \E i \in DOMAIN row : i <= Len(header) /\ Truthy(row[i])

-----------------------------------------------------------------------------
(* load_questions_from_csv *)

\* line 76: the non-empty choice fields of a row, in column order
row_choices(header, row) ==
    SelectSeq([i \in 1..4 |-> row_get(header, row, choice_columns[i], None)], Truthy)

\* line 88: the zero-based index of the 1-based 'Seikai' value n
zero_based(n) == n - 1

\* line 90: the index is inside the choices
below_upper_only(correct_idx, choices) == correct_idx < Len(choices)
in_range(correct_idx, choices) == 0 <= correct_idx /\ correct_idx < Len(choices)

\* line 68, right of .strip(): the row is disabled
status_never_disabled(status) == FALSE
status_is_disabled(status) == strip(status) = STATUS_DISABLED

\* lines 94-101: the record of a valid row; n questions were loaded before it
question_record(header, row, n) ==
    [id                   |-> row_get(header, row, "MondaiNo", ToString(n + 1)),
     difficulty           |-> row_get(header, row, "Nanido", "N/A"),
     question_text        |-> row_get(header, row, "Mondai", "no question text"),
     choices              |-> row_choices(header, row),
     correct_answer_index |-> zero_based(int(row_get(header, row, "Seikai", None))[1]),
     comment              |-> row_get(header, row, "Comment", "")]

\* lines 66-107: what the loop body does with one row.
\*   "abort"    line 68 raised (None has no strip) outside the row's try:
\*              the exception leaves the loop and reaches line 112
\*   "disabled" skipped without a warning (line 69)
\*   "blank"    skipped without a warning (line 74)
\*   "choices", "empty", "range", "int"   st.warning, row skipped
\*   "append"   the row's record is appended
row_outcome(header, row) ==
    LET status          == row_get(header, row, "Status", STATUS_ACTIVE)
        choices         == row_choices(header, row)
        correct_idx_str == row_get(header, row, "Seikai", None)
    IN  IF status = None THEN "abort"
        ELSE IF status_is_disabled(status) THEN "disabled"
        ELSE IF ~any_values(header, row) THEN "blank"
        ELSE IF Len(choices) < 4 THEN "choices"
        ELSE IF ~Truthy(correct_idx_str) THEN "empty"
        ELSE IF int(correct_idx_str) = <<>> THEN "int"
        ELSE IF ~in_range(zero_based(int(correct_idx_str)[1]), choices) THEN "range"
        ELSE "append"

\* The result of a load: the questions, for each question the file line it
\* was read from (src), the per-row warnings (file line, row_num as the
\* message prints it, kind), the file-level message, and the file afterwards.
LoadResult(qs, src, warnings, message, exists, lines) ==
    [questions |-> qs, src |-> src, warnings |-> warnings, message |-> message,
     file_exists |-> exists, file_lines |-> lines]

\* lines 65-107: the loop over the rows from file line i on.  csv.DictReader
\* does not yield an empty line, and enumerate does not count it.
RECURSIVE read_rows(_, _, _, _, _)
read_rows(header, lines, i, row_num, acc) ==
    IF i > Len(lines) THEN acc
    ELSE IF lines[i] = <<>> THEN read_rows(header, lines, i + 1, row_num, acc)
    ELSE LET o == row_outcome(header, lines[i])
         IN  IF o = "abort" THEN [acc EXCEPT !.message = "read_error"]
             ELSE IF o \in {"disabled", "blank"}
                  THEN read_rows(header, lines, i + 1, row_num + 1, acc)
             ELSE IF o = "append"
                  THEN read_rows(header, lines, i + 1, row_num + 1,
                         [acc EXCEPT
                            !.questions = Append(@, question_record(header, lines[i],
                                                                    Len(acc.questions))),
                            !.src = Append(@, i)])
             ELSE read_rows(header, lines, i + 1, row_num + 1,
                         [acc EXCEPT !.warnings =
                              Append(@, [line |-> i, row_num |-> row_num, kind |-> o])])

\* lines 46-48: the file written when none exists
created_without_header == <<>>
created_file == <<CSV_HEADERS>>

\* csv.DictReader.fieldnames: the first non-empty line, 0 when there is none
header_line(lines) ==
    IF \E i \in DOMAIN lines : lines[i] # <<>>
    THEN CHOOSE i \in DOMAIN lines :
            lines[i] # <<>> /\ \A j \in 1..(i - 1) : lines[j] = <<>>
    ELSE 0

\* lines 37-119, the function without its cache.
\*   "created"      the file was missing and was written with the header row
\*   "read_error"   an exception reached line 112 (st.error, no questions)
\*   "bad_header"   a required column is missing (line 62)
\*   "no_questions" line 117
load_questions_from_csv(exists, lines) ==
    IF ~exists
    THEN LoadResult(<<>>, <<>>, <<>>, "created", TRUE, created_file)
    ELSE LET h == header_line(lines)
         IN  IF h = 0
             THEN LoadResult(<<>>, <<>>, <<>>, "read_error", exists, lines)
             ELSE IF ~(Range(required_headers) \subseteq Range(lines[h]))
             THEN LoadResult(<<>>, <<>>, <<>>, "bad_header", exists, lines)
             ELSE LET r == read_rows(lines[h], lines, h + 1, 2,
                                     LoadResult(<<>>, <<>>, <<>>, "", exists, lines))
                  IN  IF r.message = "read_error"
                      THEN [r EXCEPT !.questions = <<>>, !.src = <<>>]
                      ELSE IF r.questions = <<>>
                      THEN [r EXCEPT !.message = "no_questions"]
                      ELSE r

\* lines 36-37: @st.cache_data.  A cached value is returned (as a copy)
\* without running the function; otherwise the function runs and its value
\* is stored.  cache is <<>> or <<the cached questions>>.
cached_load(c, exists, lines) ==
    IF c # <<>>
    THEN [questions |-> c[1], cache |-> c, file_exists |-> exists, file_lines |-> lines]
    ELSE LET r == load_questions_from_csv(exists, lines)
         IN  [questions |-> r.questions, cache |-> <<r.questions>>,
              file_exists |-> r.file_exists, file_lines |-> r.file_lines]

-----------------------------------------------------------------------------
(* The quiz session *)

\* last_answer_correct is None (<<>>) or a bool (<<b>>)
NoAnswer == <<>>

\* what a script run rendered: the screen, the feedback block when one was
\* shown (<<>> when none), and the st.warning / st.success of the handler
Page(screen, feedback, notice) ==
    [screen |-> screen, feedback |-> feedback, notice |-> notice]

\* random.shuffle: every order of the list
Orders(n) ==
    {f \in [1..n -> 1..n] : \A i, j \in 1..n : f[i] = f[j] => i = j}
shuffle_drops_last(list) ==
    {[i \in 1..(Len(list) - 1) |-> list[f[i]]] : f \in Orders(Len(list) - 1)}
shuffle(list) ==
    {[i \in 1..Len(list) |-> list[f[i]]] : f \in Orders(Len(list))}

\* line 190: start_quiz refuses an empty list
refuses_nothing(loaded) == FALSE
no_questions(loaded) == loaded = <<>>

\* lines 196-202: the session start_quiz sets up for the shuffled list
session_keeps_feedback(shuffled) ==
    [questions |-> shuffled, current_question_index |-> 0, score |-> 0,
     answered_details |-> <<>>, quiz_started |-> TRUE,
     last_answer_correct |-> NoAnswer, last_answer_comment |-> "",
     show_feedback |-> TRUE]
started_session(shuffled) ==
    [questions |-> shuffled, current_question_index |-> 0, score |-> 0,
     answered_details |-> <<>>, quiz_started |-> TRUE,
     last_answer_correct |-> NoAnswer, last_answer_comment |-> "",
     show_feedback |-> FALSE]

\* lines 273-274: the answer is correct
always_correct(question_data, user_choice_text) == TRUE
is_correct(question_data, user_choice_text) ==
    index(question_data.choices, user_choice_text) = question_data.correct_answer_index

\* an entry that records the chosen text as the correct one
answer_entry_echo(question_data, user_choice_text) ==
    [question_id         |-> question_data.id,
     question_text       |-> question_data.question_text,
     user_choice_text    |-> user_choice_text,
     correct_answer_text |-> user_choice_text,
     is_correct          |-> is_correct(question_data, user_choice_text),
     comment             |-> question_data.comment]

\* lines 279-286: the transcript entry of an answer
answer_entry(question_data, user_choice_text) ==
    [question_id         |-> question_data.id,
     question_text       |-> question_data.question_text,
     user_choice_text    |-> user_choice_text,
     correct_answer_text |->
         question_data.choices[question_data.correct_answer_index + 1],
     is_correct          |-> is_correct(question_data, user_choice_text),
     comment             |-> question_data.comment]

\* line 291: the cursor after an answer
index_stays(i) == i
index_skips(i) == i + 2
next_index(i) == i + 1

\* line 232: the quiz is over
never_finished(current_idx, total_questions) == current_idx > total_questions
quiz_finished(current_idx, total_questions) == current_idx >= total_questions

\* lines 229-253: what display_question renders before its form, and the
\* show_feedback flag it leaves
display_question(qs, current_idx, sf, lac, comment) ==
    IF quiz_finished(current_idx, Len(qs))
    THEN [screen |-> "results", feedback |-> <<>>, show_feedback |-> sf]
    ELSE [screen |-> "question",
          feedback |-> IF sf THEN <<[correct |-> lac, comment |-> comment]>> ELSE <<>>,
          show_feedback |-> FALSE]

\* lines 300-302: the accuracy display_results prints with two decimals, in
\* hundredths of a percent (total_questions > 0)
accuracy(sc, total_questions) == (2 * 10000 * sc + total_questions) \div (2 * total_questions)

\* line 223: the start screen loads the bank when the file exists
start_screen_load(c, exists, lines) ==
    IF exists THEN cached_load(c, exists, lines)
    ELSE [questions |-> <<>>, cache |-> c, file_exists |-> exists, file_lines |-> lines]

-----------------------------------------------------------------------------
(* The files and form inputs the model draws from *)

\* data rows a questions file may hold (10 fields unless said otherwise)
RowPool ==
    { <<"Q1", "A", "t1", "a", "b", "c", "d", "1", "", "yuukou">>,
      <<"Q2", "B", "t2", "a", "b", "c", "d", " 3 ", "note", "">>,
      <<"Q3", "A", "t3", "a", "a", "b", "c", "2", "", "yuukou">>,    \* equal choices
      <<"Q4", "A", "t4", "a", "b", "c", "d", "2", "", "mukou">>,     \* disabled
      <<"Q5", "B", "t5", "a", "b", "c", "", "x", "", " mukou ">>,    \* disabled, invalid
      <<"Q6", "A", "t6", "a", "b", "c", "d", "4", "">>,              \* 9 fields
      <<"Q7", "A", "t7", "a", "b", "c", "", "1", "", "yuukou">>,     \* a choice missing
      <<"Q8", "A", "t8", "a", "b", "c", "d", "x", "", "yuukou">>,    \* not a number
      <<"Q9", "A", "t9", "a", "b", "c", "d", "5", "", "yuukou">>,    \* out of range
      <<"Q10", "A", "t10", "a", "b", "c", "d", "0", "", "yuukou">>,  \* out of range
      <<"Q11", "A", "t11", "a", "b", "c", "d", "", "", "yuukou">>,   \* no correct value
      <<"", "", "", "", "", "", "", "", "", "">>,                    \* all fields empty
      <<>> }                                                         \* an empty line

\* a header row lacking the required column Seikai
BadHeader == SelectSeq(CSV_HEADERS, LAMBDA h : h # "Seikai")

RowSeqs == UNION {[1..n -> RowPool] : n \in 0..MaxRows}

\* the contents an existing questions file may have at start-up
Files ==
    {<<>>, <<BadHeader, <<"Q1", "A", "t1", "a", "b", "c", "d", "", "yuukou">>>>}
    \cup {<<h>> \o rows : h \in {CSV_HEADERS, required_headers}, rows \in RowSeqs}

\* what the add-question form can submit (q_correct is a number 1..4)
FormInputs ==
    { [q_no |-> "N1", q_difficulty |-> "C", q_text |-> "n1", q_choice1 |-> "a",
       q_choice2 |-> "b", q_choice3 |-> "c", q_choice4 |-> "d", q_correct |-> 2,
       q_comment |-> "", q_status |-> "yuukou"],
      [q_no |-> "N2", q_difficulty |-> "SS", q_text |-> "n2", q_choice1 |-> "a",
       q_choice2 |-> "b", q_choice3 |-> "c", q_choice4 |-> "d", q_correct |-> 1,
       q_comment |-> "note", q_status |-> "mukou"],
      [q_no |-> "N3", q_difficulty |-> "C", q_text |-> "n3", q_choice1 |-> "a",
       q_choice2 |-> "b", q_choice3 |-> "c", q_choice4 |-> "", q_correct |-> 1,
       q_comment |-> "", q_status |-> "yuukou"],
      [q_no |-> "", q_difficulty |-> "C", q_text |-> "n4", q_choice1 |-> "a",
       q_choice2 |-> "b", q_choice3 |-> "c", q_choice4 |-> "d", q_correct |-> 1,
       q_comment |-> "", q_status |-> "yuukou"],
      [q_no |-> "N5", q_difficulty |-> "C", q_text |-> "", q_choice1 |-> "a",
       q_choice2 |-> "b", q_choice3 |-> "c", q_choice4 |-> "d", q_correct |-> 1,
       q_comment |-> "", q_status |-> "yuukou"] }

-----------------------------------------------------------------------------
(* add_question_to_csv and its form *)

\* str(n) of the form's number
str(n) == ToString(n)

\* line 133: csv.DictWriter.writerow writes the values in CSV_HEADERS order
csv_row(f) ==
    <<f.q_no, f.q_difficulty, f.q_text, f.q_choice1, f.q_choice2, f.q_choice3,
      f.q_choice4, str(f.q_correct), f.q_comment, f.q_status>>

\* a check of the number alone
required_id_only(f) == Truthy(f.q_no)

\* lines 167-168: all required fields are filled in
all_required(f) ==
    \A v \in {f.q_no, f.q_text, f.q_choice1, f.q_choice2, f.q_choice3, f.q_choice4} :
        Truthy(v)

\* an append that writes the header row every time
appended_with_header(exists, lines, f) == lines \o <<CSV_HEADERS, csv_row(f)>>

\* lines 126-133: the file after the append
appended_lines(exists, lines, f) ==
    IF ~exists \/ lines = <<>>
    THEN <<CSV_HEADERS, csv_row(f)>>
    ELSE Append(lines, csv_row(f))

-----------------------------------------------------------------------------
(* The state machine: one action per script run *)

file_vars == <<file_exists, file_lines>>
session_vars == <<quiz_started, questions, current_question_index, score,
                  answered_details, last_answer_correct, last_answer_comment>>

\* lines 15-33 (initialize_session_state) before the first script run, with
\* any questions file, or none, on disk
Init ==
    /\ file_exists \in BOOLEAN
    /\ file_lines \in (IF file_exists THEN Files ELSE {<<>>})
    /\ cache = <<>>
    /\ quiz_started = FALSE
    /\ questions = <<>>
    /\ current_question_index = 0
    /\ score = 0
    /\ answered_details = <<>>
    /\ last_answer_correct = NoAnswer
    /\ last_answer_comment = ""
    /\ show_feedback = FALSE
    /\ page = Page("none", <<>>, "")

\* lines 339-342 after the sidebar form: the page body of a run in which no
\* button of the body was pressed, with the handler's notice
RenderBody(notice, c, exists, lines) ==
    IF ~quiz_started
    THEN \E l \in {start_screen_load(c, exists, lines)} :
             /\ page' = Page("start", <<>>, notice)
             /\ cache' = l.cache
             /\ file_exists' = l.file_exists
             /\ file_lines' = l.file_lines
             /\ show_feedback' = show_feedback
    ELSE \E d \in {display_question(questions, current_question_index, show_feedback,
                                    last_answer_correct, last_answer_comment)} :
             /\ page' = Page(d.screen, d.feedback, notice)
             /\ show_feedback' = d.show_feedback
             /\ cache' = c
             /\ file_exists' = exists
             /\ file_lines' = lines

\* main, lines 332-342: a run of the script with no widget pressed
Render ==
    /\ RenderBody("", cache, file_exists, file_lines)
    /\ UNCHANGED session_vars

\* start_quiz, lines 190-193, then display_start_screen, line 223, with the
\* file now on disk: the loaded list l is empty
StartRefused(l) ==
    \E l2 \in {start_screen_load(l.cache, l.file_exists, l.file_lines)} :
        /\ quiz_started' = FALSE
        /\ questions' = l.questions
        /\ page' = Page("start", <<>>, "cannot_start")
        /\ cache' = l2.cache
        /\ file_exists' = l2.file_exists
        /\ file_lines' = l2.file_lines
        /\ UNCHANGED <<current_question_index, score, answered_details,
                       last_answer_correct, last_answer_comment,
                       show_feedback>>

\* start_quiz, lines 195-203: the session s is stored, and the rerun renders
\* its first question
StartSession(l, s) ==
    \E d \in {display_question(s.questions, s.current_question_index,
                               s.show_feedback, s.last_answer_correct,
                               s.last_answer_comment)} :
        /\ quiz_started' = s.quiz_started
        /\ questions' = s.questions
        /\ current_question_index' = s.current_question_index
        /\ score' = s.score
        /\ answered_details' = s.answered_details
        /\ last_answer_correct' = s.last_answer_correct
        /\ last_answer_comment' = s.last_answer_comment
        /\ show_feedback' = d.show_feedback
        /\ page' = Page(d.screen, d.feedback, "")
        /\ cache' = l.cache
        /\ file_exists' = l.file_exists
        /\ file_lines' = l.file_lines

\* display_start_screen, lines 220-223, and start_quiz, lines 187-203: the
\* start button is pressed
ClickStart ==
    /\ page.screen = "start"
    /\ \E l \in {cached_load(cache, file_exists, file_lines)} :
          IF no_questions(l.questions)
          THEN StartRefused(l)
          ELSE \E shuffled \in shuffle(l.questions) :
                  \E s \in {started_session(shuffled)} : StartSession(l, s)

\* a submission without a choice that moves on to the next question
SubmitSkipsQuestion ==
    /\ page.screen = "question"
    /\ RenderBody("select_answer", cache, file_exists, file_lines)
    /\ current_question_index' = current_question_index + 1
    /\ UNCHANGED <<quiz_started, questions, score, answered_details,
                   last_answer_correct, last_answer_comment>>

\* display_question, lines 265-267: the answer form is submitted with no
\* choice selected
SubmitWithoutChoice ==
    /\ page.screen = "question"
    /\ RenderBody("select_answer", cache, file_exists, file_lines)
    /\ UNCHANGED session_vars

\* process_answer, lines 273-292, for the question on the page and the chosen
\* text; the rerun renders the next page
ProcessAnswer(question_data, user_choice_text) ==
    \E correct \in {is_correct(question_data, user_choice_text)},
       idx \in {next_index(current_question_index)} :
        \E d \in {display_question(questions, idx, TRUE, <<correct>>,
                                   question_data.comment)} :
            /\ score' = IF correct THEN score + 1 ELSE score
            /\ answered_details' =
                   Append(answered_details, answer_entry(question_data, user_choice_text))
            /\ last_answer_correct' = <<correct>>
            /\ last_answer_comment' = question_data.comment
            /\ current_question_index' = idx
            /\ show_feedback' = d.show_feedback
            /\ page' = Page(d.screen, d.feedback, "")

\* display_question, lines 265-269: the answer form is submitted with a
\* choice selected; st.radio returns the text of the selected option
SubmitAnswer ==
    /\ page.screen = "question"
    /\ \E user_choice_text \in Range(questions[current_question_index + 1].choices) :
          ProcessAnswer(questions[current_question_index + 1], user_choice_text)
    /\ UNCHANGED <<file_vars, cache, quiz_started, questions>>

\* a new-quiz button that is also on the question page
NewQuizAnytime ==
    /\ page.screen \in {"question", "results"}
    /\ \E l \in {start_screen_load(cache, file_exists, file_lines)} :
           /\ quiz_started' = FALSE
           /\ questions' = <<>>
           /\ current_question_index' = 0
           /\ score' = 0
           /\ answered_details' = <<>>
           /\ last_answer_correct' = NoAnswer
           /\ last_answer_comment' = ""
           /\ show_feedback' = FALSE
           /\ page' = Page("start", <<>>, "")
           /\ cache' = l.cache
           /\ file_exists' = l.file_exists
           /\ file_lines' = l.file_lines

\* display_results, lines 327-329, and reset_quiz_state, lines 205-214: the
\* new-quiz button is pressed; the rerun renders the start screen
NewQuiz ==
    /\ page.screen = "results"
    /\ \E l \in {start_screen_load(cache, file_exists, file_lines)} :
           /\ quiz_started' = FALSE
           /\ questions' = <<>>
           /\ current_question_index' = 0
           /\ score' = 0
           /\ answered_details' = <<>>
           /\ last_answer_correct' = NoAnswer
           /\ last_answer_comment' = ""
           /\ show_feedback' = FALSE
           /\ page' = Page("start", <<>>, "")
           /\ cache' = l.cache
           /\ file_exists' = l.file_exists
           /\ file_lines' = l.file_lines

\* display_add_question_form, lines 166-169: the add form is submitted with
\* a required field blank
AddRejected ==
    /\ page.screen # "none"
    /\ \E f \in FormInputs :
         /\ ~all_required(f)
         /\ RenderBody("missing_fields", cache, file_exists, file_lines)
    /\ UNCHANGED session_vars

\* display_add_question_form, lines 170-183, and add_question_to_csv, lines
\* 121-136: the row is appended and the cache cleared; the run goes on to
\* render the page body.  (A write the disk refuses, lines 138-139, is not
\* part of the model.)
AddQuestion ==
    /\ page.screen # "none"
    /\ Len(file_lines) <= MaxRows
    /\ \E f \in FormInputs :
         /\ all_required(f)
         /\ RenderBody("added", <<>>, TRUE, appended_lines(file_exists, file_lines, f))
    /\ UNCHANGED session_vars

Next ==
    \/ Render
    \/ ClickStart
    \/ SubmitWithoutChoice
    \/ SubmitAnswer
    \/ NewQuiz
    \/ AddRejected
    \/ AddQuestion

Spec == Init /\ [][Next]_vars

\* the user keeps answering the question on the page
FairSpec == Spec /\ WF_vars(SubmitAnswer)

-----------------------------------------------------------------------------
(* Properties *)

InProgress == quiz_started /\ current_question_index < Len(questions)
Finished == quiz_started /\ current_question_index = Len(questions)

\* a step in which an answer is accepted: the transcript grows by one entry
AnswerStep == Len(answered_details') = Len(answered_details) + 1

\* a step in which a session starts
StartStep == ~quiz_started /\ quiz_started'

\* C1: every accepted answer moves the cursor forward by exactly 1 and changes
\* the score by 1 when the first position of the chosen text in the question's
\* choices is correct_answer_index and by 0 otherwise; the score never goes
\* down and never moves by more than 1.
C1_AnswerScoring ==
    [][AnswerStep =>
        LET q      == questions[current_question_index + 1]
            chosen == answered_details'[Len(answered_details')].user_choice_text
        IN  /\ current_question_index' = current_question_index + 1
            /\ score' - score =
                 IF index(q.choices, chosen) = q.correct_answer_index THEN 1 ELSE 0
            /\ score' >= score
            /\ score' - score <= 1]_vars

\* C1 witness: two answers were accepted, one scored and one not
C1_Witness ==
    /\ quiz_started
    /\ current_question_index = 2
    /\ score = 1
    /\ Len(answered_details) = 2

\* C2: when the user has submitted, for every question of the pool, the text
\* of its correct choice, the final score is the pool size and the accuracy
\* shown is 100.00, also for a question whose choice texts are not distinct.
C2_CorrectTextsScoreAll ==
    ( /\ Finished
      /\ Len(answered_details) = Len(questions)
      /\ \A i \in DOMAIN questions :
            answered_details[i].user_choice_text =
                questions[i].choices[questions[i].correct_answer_index + 1] )
    => /\ score = Len(questions)
       /\ accuracy(score, Len(questions)) = 10000

\* C3: the cursor stays within 0..len(questions); a started session shows a
\* question exactly when the cursor is below len(questions) and the results
\* exactly when it equals len(questions), where no answer can be submitted.
C3_CursorInRange ==
    /\ 0 <= current_question_index
    /\ current_question_index <= Len(questions)
    /\ quiz_started =>
          /\ page.screen = "question" <=> current_question_index < Len(questions)
          /\ page.screen = "results" <=> current_question_index = Len(questions)
    /\ current_question_index = Len(questions) => ~ENABLED SubmitAnswer

\* C3 witness: a session of two questions has reached its results page
C3_Witness ==
    /\ quiz_started
    /\ Len(questions) = 2
    /\ current_question_index = 2
    /\ page.screen = "results"

\* C4: while the user keeps answering, every started session is finished
\* eventually; an unfinished session can always accept an answer, and the
\* cursor is the number of answers accepted so far, so that it reaches
\* len(questions) after exactly that many answers.
C4_EventuallyFinished ==
    /\ [](InProgress => ENABLED SubmitAnswer)
    /\ [](quiz_started => Len(answered_details) = current_question_index)
    /\ quiz_started ~> Finished

\* C4 witness: a session of two questions is finished after two answers, none
\* of them correct
C4_Witness ==
    /\ Finished
    /\ Len(questions) = 2
    /\ Len(answered_details) = 2
    /\ score = 0

\* C5: a started session has at least one question, and a start refused for
\* want of questions leaves the quiz not started, on the start screen.
C5_NoEmptySession ==
    /\ quiz_started => Len(questions) > 0
    /\ page.notice = "cannot_start" => ~quiz_started /\ page.screen = "start"

\* C5 witness: the start button was pressed with no question to load
C5_Witness ==
    /\ page.notice = "cannot_start"
    /\ cache = <<<<>>>>
    /\ ~quiz_started

\* C6: every start gives cursor 0, score 0, an empty transcript, no last
\* answer and no feedback, pending or shown, whatever the session before it
\* left behind.
C6_FreshStart ==
    [][StartStep =>
        /\ current_question_index' = 0
        /\ score' = 0
        /\ answered_details' = <<>>
        /\ last_answer_correct' = NoAnswer
        /\ last_answer_comment' = ""
        /\ show_feedback' = FALSE
        /\ page'.feedback = <<>>
        /\ page'.screen = "question"]_vars

\* C6 witness: a session has just started on a bank that includes a row the
\* add form appended
C6_Witness ==
    /\ quiz_started
    /\ current_question_index = 0
    /\ answered_details = <<>>
    /\ page.screen = "question"
    /\ \E i \in DOMAIN questions : questions[i].id = "N1"

Min(a, b) == IF a <= b THEN a ELSE b

\* the bank start_quiz loads in the current state
CurrentBank == cached_load(cache, file_exists, file_lines).questions

\* list b holds the elements of list a in some order
IsPermutation(a, b) ==
    /\ Len(a) = Len(b)
    /\ \E f \in Orders(Len(a)) : \A i \in 1..Len(a) : b[i] = a[f[i]]

\* the difficulty labels of the model's rows and of the add form
Difficulties == {"A", "B", "C", "SS"}

HeaderOK ==
    /\ file_exists
    /\ header_line(file_lines) # 0
    /\ Range(required_headers) \subseteq Range(file_lines[header_line(file_lines)])

FileHeader == file_lines[header_line(file_lines)]

\* the file lines after the header
DataLines == (header_line(file_lines) + 1)..Len(file_lines)

\* the uncached load of the file as it is now
FreshLoad == load_questions_from_csv(file_exists, file_lines)

\* the field of a row in a column, None when the row has no such field
Field(row, column) == row_get(FileHeader, row, column, None)

\* a row's status column says disabled
RowDisabled(row) ==
    /\ Field(row, "Status") # None
    /\ strip(Field(row, "Status")) = STATUS_DISABLED

\* a row has 4 non-empty choices, a correct value 1..4 and is not disabled
RowValid(row) ==
    /\ \A i \in 1..4 : Truthy(Field(row, choice_columns[i]))
    /\ Field(row, "Seikai") \in {"1", "2", "3", "4"}
    /\ ~RowDisabled(row)

\* C8: in a file with the required header, every valid row that has all the
\* fields of the header is in the loaded bank, whatever malformed rows (short
\* rows included) stand before or after it.
C8_RowErrorsStayLocal ==
    HeaderOK =>
        \A i \in DataLines :
            (RowValid(file_lines[i]) /\ Len(file_lines[i]) >= Len(FileHeader))
                => i \in Range(FreshLoad.src)

\* C9: in a file with the required header, every valid row yields exactly
\* one record, with correct_answer_index = correct - 1 and the four choices
\* in column order, and the records are in the order of their rows.
C9_ValidRowsLoadedInOrder ==
    HeaderOK =>
        /\ \A i \in DataLines :
              RowValid(file_lines[i]) =>
                  /\ Cardinality({k \in DOMAIN FreshLoad.src : FreshLoad.src[k] = i}) = 1
                  /\ \A k \in DOMAIN FreshLoad.src :
                        FreshLoad.src[k] = i =>
                            /\ <<FreshLoad.questions[k].correct_answer_index + 1>> =
                                   int(Field(file_lines[i], "Seikai"))
                            /\ FreshLoad.questions[k].choices =
                                   [c \in 1..4 |-> Field(file_lines[i], choice_columns[c])]
        /\ \A k, m \in DOMAIN FreshLoad.src :
              k < m => FreshLoad.src[k] < FreshLoad.src[m]

\* the ids of the rows of the file that are disabled
DisabledIds ==
    {Field(file_lines[i], "MondaiNo") :
        i \in {j \in DataLines : RowDisabled(file_lines[j])}}

\* C10: a row whose status is disabled yields no record and no warning,
\* whether or not it is valid otherwise, and is in no cached bank and in no
\* session pool.
C10_DisabledNeverLoaded ==
    HeaderOK =>
        /\ \A i \in DataLines :
              RowDisabled(file_lines[i]) =>
                  /\ i \notin Range(FreshLoad.src)
                  /\ \A k \in DOMAIN FreshLoad.warnings : FreshLoad.warnings[k].line # i
        /\ \A k \in DOMAIN questions : questions[k].id \notin DisabledIds
        /\ cache # <<>> => \A k \in DOMAIN cache[1] : cache[1][k].id \notin DisabledIds

\* C10 witness: a session runs on a file holding a disabled row that is
\* invalid as well, beside the rows of the pool
C10_Witness ==
    /\ HeaderOK
    /\ quiz_started
    /\ cache # <<>>
    /\ \E i \in DataLines :
          /\ RowDisabled(file_lines[i])
          /\ ~Truthy(Field(file_lines[i], "Sentakushi4"))

\* a question record has exactly 4 choices and a correct index in 0..3
WellFormedQuestion(q) ==
    /\ Len(q.choices) = 4
    /\ q.correct_answer_index \in 0..3

\* a row lacks one of the 4 choices, or its correct value is no number 1..4
RowViolates(row) ==
    \/ \E i \in 1..4 : ~Truthy(Field(row, choice_columns[i]))
    \/ ~Truthy(Field(row, "Seikai"))
    \/ int(Field(row, "Seikai")) = <<>>
    \/ int(Field(row, "Seikai"))[1] \notin 1..4

\* C11: every record of the loaded bank, of the cached bank and of the
\* session pool has exactly 4 choices and a correct index in 0..3, and a row
\* that lacks a choice or whose correct value is not 1..4 yields no record.
C11_BankRecordsWellFormed ==
    /\ \A loaded \in {FreshLoad} :
          /\ \A q \in Range(loaded.questions) : WellFormedQuestion(q)
          /\ HeaderOK =>
                \A i \in DataLines :
                    (file_lines[i] # <<>> /\ RowViolates(file_lines[i]))
                        => i \notin Range(loaded.src)
    /\ cache # <<>> => \A k \in DOMAIN cache[1] : WellFormedQuestion(cache[1][k])
    /\ \A k \in DOMAIN questions : WellFormedQuestion(questions[k])

\* C11 witness: a session runs on a file that also holds a row whose correct
\* value is 0 or 5
C11_Witness ==
    /\ HeaderOK
    /\ quiz_started
    /\ \E i \in DataLines :
          /\ file_lines[i] # <<>>
          /\ Field(file_lines[i], "Seikai") \in {"0", "5"}

\* a step in which the add form appended a row
AppendStep == page'.notice = "added"

\* the header test of HeaderOK for any file
HeaderOKOf(exists, lines) ==
    /\ exists
    /\ header_line(lines) # 0
    /\ Range(required_headers) \subseteq Range(lines[header_line(lines)])

\* the record the loader is to make of the form's row f
FormRecord(f) ==
    [id |-> f.q_no, difficulty |-> f.q_difficulty, question_text |-> f.q_text,
     choices |-> <<f.q_choice1, f.q_choice2, f.q_choice3, f.q_choice4>>,
     correct_answer_index |-> f.q_correct - 1, comment |-> f.q_comment]

\* C12: after the add form has appended an active record to a file with the
\* required header, the next load (through the cache as the append left it)
\* returns a bank that holds the record with the fields written and
\* correct_answer_index = correct - 1.
C12_AppendedRecordLoads ==
    [][(AppendStep /\ HeaderOKOf(file_exists', file_lines')) =>
        \A f \in FormInputs :
            (/\ file_lines'[Len(file_lines')] = csv_row(f)
             /\ f.q_status = STATUS_ACTIVE)
            => \E k \in DOMAIN cached_load(cache', file_exists', file_lines').questions :
                  cached_load(cache', file_exists', file_lines').questions[k]
                      = FormRecord(f)]_vars

\* C13: the step that accepts an answer renders a page showing the feedback
\* of that answer (its correctness and the question's comment), for every
\* question of the pool, the last one included; no other step shows a
\* feedback block.
C13_FeedbackShownOnce ==
    [][/\ AnswerStep =>
            page'.feedback =
                <<[correct |-> <<answered_details'[Len(answered_details')].is_correct>>,
                   comment |-> answered_details'[Len(answered_details')].comment]>>
       /\ ~AnswerStep => page'.feedback = <<>>]_vars

\* the bank a load returns in the state a step leaves
NextBank == cached_load(cache', file_exists', file_lines').questions

\* C14 as stated: a step that appends nothing leaves the file as it is, a
\* missing file missing, and the bank a load returns the same.
C14_LoadLeavesFileAlone ==
    [][~AppendStep => (UNCHANGED file_vars /\ NextBank = CurrentBank)]_vars

\* C14 amended: a step that appends nothing never changes an existing file;
\* a load of a missing file creates it holding the header row alone and
\* returns an empty bank; the bank a load returns stays the same until the
\* next append.
C14_LoadOnlyCreatesHeaderFile ==
    [][~AppendStep =>
        /\ \/ UNCHANGED file_vars
           \/ /\ ~file_exists
              /\ file_exists'
              /\ file_lines' = <<CSV_HEADERS>>
              /\ NextBank = <<>>
        /\ NextBank = CurrentBank]_vars

\* C14 witness: the start button was pressed, the file holds the header row
\* alone (as the load of a missing file leaves it) and the empty bank is
\* cached
C14_Witness ==
    /\ page.notice = "cannot_start"
    /\ file_exists
    /\ file_lines = <<CSV_HEADERS>>
    /\ cache = <<<<>>>>


-----------------------------------------------------------------------------
(* C15 *)

\* the add form was submitted with a required field blank
RejectStep == page'.notice = "missing_fields"

\* the positions of the required fields in a written row: number, text and
\* the four choices
RequiredPositions == {1, 3, 4, 5, 6, 7}

\* C15: a submission of the add form with the number, the text or one of the
\* four choices blank is rejected: the step leaves the file, the bank a load
\* returns and the session as they were (the cache is at most filled by the
\* start screen's own load), and no append ever writes a row with one of
\* these fields blank.
C15_BlankFieldRejected ==
    [][/\ RejectStep =>
            /\ UNCHANGED <<file_vars, session_vars>>
            /\ (cache' = cache \/ cache = <<>>)
            /\ NextBank = CurrentBank
       /\ AppendStep =>
            \A i \in RequiredPositions : file_lines'[Len(file_lines')][i] # ""]_vars

\* a rejected submission during a session with one answer given, the file
\* holding data rows
C15_Witness ==
    /\ page.notice = "missing_fields"
    /\ quiz_started
    /\ Len(answered_details) = 1
    /\ Len(file_lines) >= 2

-----------------------------------------------------------------------------
(* C16 *)

\* pool, cursor, score and transcript of the session
quiz_progress == <<questions, current_question_index, score, answered_details>>

\* C16: while a session is started, a step that is not an accepted answer
\* (an append, accepted or rejected, a reload of the bank, a re-render, a
\* submission without a choice) leaves the pool, content and order, the
\* cursor, the score and the transcript unchanged.
C16_OnlyAnswersChangeSession ==
    [][(quiz_started /\ quiz_started' /\ ~AnswerStep) => UNCHANGED quiz_progress]_vars

\* mid-session the user submitted without a choice, the file holding a row
\* appended since the start that is not in the pool
C16_Witness ==
    /\ InProgress
    /\ page.notice = "select_answer"
    /\ cache = <<>>
    /\ \E f \in FormInputs :
          /\ file_lines # <<>>
          /\ file_lines[Len(file_lines)] = csv_row(f)
          /\ \A k \in 1..Len(questions) : questions[k].id # f.q_no

-----------------------------------------------------------------------------
(* C17 *)

\* the state of the session: main, lines 339-342, and display_question,
\* lines 232-234, choose the screen from these conditions
SessionState(started, idx, total) ==
    IF ~started THEN "NotStarted"
    ELSE IF idx < total THEN "InProgress" ELSE "Finished"

StateNow == SessionState(quiz_started, current_question_index, Len(questions))
StateNext == SessionState(quiz_started', current_question_index', Len(questions'))

\* C17: the session changes state only NotStarted -> InProgress, by a start
\* that stores a non-empty pool with the cursor at 0; InProgress -> Finished,
\* by an answer that takes the cursor to the pool's length; and Finished ->
\* NotStarted, by the new-quiz button of the results page.  No step leaves
\* InProgress for NotStarted and none enters Finished from NotStarted.
C17_StateOrder ==
    [][\/ StateNext = StateNow
       \/ /\ StateNow = "NotStarted" /\ StateNext = "InProgress"
          /\ page.screen = "start"
          /\ questions' # <<>> /\ current_question_index' = 0
       \/ /\ StateNow = "InProgress" /\ StateNext = "Finished"
          /\ AnswerStep
          /\ current_question_index' = Len(questions) /\ questions' = questions
       \/ /\ StateNow = "Finished" /\ StateNext = "NotStarted"
          /\ page.screen = "results"
          /\ page'.screen = "start"]_vars

\* a session that went through InProgress to Finished over two questions
C17_Witness ==
    /\ StateNow = "Finished"
    /\ page.screen = "results"
    /\ Len(questions) = 2
    /\ Len(answered_details) = 2

-----------------------------------------------------------------------------
(* C18 *)

\* the transcript entries flagged correct
CorrectEntries == {i \in 1..Len(answered_details) : answered_details[i].is_correct}

\* C18: in a started session the transcript has one entry per question
\* passed, the i-th entry carries the id, the text and the correct choice's
\* text of the i-th question of the pool, and the score is the number of
\* entries flagged correct, so between 0 and the cursor.
C18_TranscriptAgrees ==
    quiz_started =>
        /\ Len(answered_details) = current_question_index
        /\ current_question_index <= Len(questions)
        /\ \A i \in 1..Len(answered_details) :
              /\ answered_details[i].question_id = questions[i].id
              /\ answered_details[i].question_text = questions[i].question_text
              /\ answered_details[i].correct_answer_text =
                     questions[i].choices[questions[i].correct_answer_index + 1]
        /\ score = Cardinality(CorrectEntries)
        /\ 0 <= score /\ score <= current_question_index

\* two answers given, one right and one wrong
C18_Witness ==
    /\ quiz_started
    /\ current_question_index = 2
    /\ score = 1
    /\ Cardinality(CorrectEntries) = 1

-----------------------------------------------------------------------------
(* C19 *)

\* the file is missing, empty, or starts with the header row and holds it
\* once.  A missing, an empty and a header-only file are of this kind.
WellHeaded(exists, lines) ==
    \/ ~exists
    \/ lines = <<>>
    \/ /\ lines[1] = CSV_HEADERS
       /\ \A i \in 2..Len(lines) : lines[i] # CSV_HEADERS

FormRows == {csv_row(f) : f \in FormInputs}

\* C19: loads and appends keep a file that is missing, empty or headed by
\* the one header row a file headed by the one header row: a load that
\* creates the file writes the header row alone, an append to a missing or
\* empty file writes the header row and then the data row, and an append to
\* a headed file adds the data row after the last line and no header.
C19_HeaderOnceAndFirst ==
    [][WellHeaded(file_exists, file_lines) =>
          /\ WellHeaded(file_exists', file_lines')
          /\ (file_lines' # file_lines => file_lines'[1] = CSV_HEADERS)
          /\ AppendStep =>
                /\ file_lines'[Len(file_lines')] \in FormRows
                /\ IF ~file_exists \/ file_lines = <<>>
                   THEN Len(file_lines') = 2
                   ELSE SubSeq(file_lines', 1, Len(file_lines)) = file_lines]_vars

\* two appends later the file is the header row and the two rows
C19_Witness ==
    /\ page.notice = "added"
    /\ Len(file_lines) = 3
    /\ file_lines[1] = CSV_HEADERS
    /\ file_lines[2] \in FormRows
    /\ file_lines[3] \in FormRows

-----------------------------------------------------------------------------
(* C20 *)

\* the numbers of the questions the add form submits with status disabled
DisabledFormIds == {f.q_no : f \in {g \in FormInputs : g.q_status = STATUS_DISABLED}}

HasDisabledFormId(qs) == \E k \in 1..Len(qs) : qs[k].id \in DisabledFormIds

\* C20: a question appended through the add form with status disabled is in
\* no bank a load returns, cached or not, and in no session pool, whatever
\* file the loader accepts, a file whose header has no status column included.
C20_DisabledFormRowNeverLoaded ==
    /\ ~HasDisabledFormId(FreshLoad.questions)
    /\ (cache # <<>> => ~HasDisabledFormId(cache[1]))
    /\ ~HasDisabledFormId(questions)

=============================================================================
